---- MODULE Spec2Model ----
(***************************************************************************)
(* Model of iota's text buffer (src/iota/buffer.rs): the flat character    *)
(* sequence `text`, the absolute `cursor`, the `lines` cache and the       *)
(* optional `file_path`, with the cursor navigation and character editing  *)
(* operations of `impl Buffer`.                                            *)
(*                                                                         *)
(* Offsets are 0-based as in the source; At(t, i) reads element i.         *)
(* A panic (failed unwrap, out-of-bounds index) ends the task: the state   *)
(* is left as it was when the panic was raised, `status` becomes "panic"   *)
(* and no further operation runs.                                          *)
(* `call` records the operation invoked last, its argument and the buffer  *)
(* it was invoked on; `ret` holds what that operation returned.            *)
(* Spec is the buffer as its constructors build it, under the cursor,      *)
(* character-editing and query operations; LineSpec is the buffer as       *)
(* tests::setup_buffer builds it, under the line-level operations.         *)
(***************************************************************************)
EXTENDS Integers, Sequences, FiniteSets, TLC

VARIABLES text, cursor, lines, file_path, status, call, ret

vars == <<text, cursor, lines, file_path, status, call, ret>>

\* ---------------------------------------------------------------- bounds
MaxLen == 3
MaxDelta == 2
MaxLineNum == 3
MaxLines == 2
MaxData == 2

\* ------------------------------------------------------------ characters
NL == "\n"
Chars == {"a", "b", NL}
Deltas == (0 - MaxDelta)..MaxDelta
Directions == {"Up", "Down", "Left", "Right"}

Texts == UNION {[1..k -> Chars] : k \in 0..MaxLen}

\* Option<T>
None == <<"None">>
Some(x) == <<"Some", x>>

\* -------------------------------------------------- GapBuffer<char> (text)
\* The editable sequence, by its contract: 0-based indexing that panics
\* out of bounds, insert(i, ch) for i <= len, remove(i) returning None and
\* changing nothing when i is out of bounds.
At(t, i) == t[i + 1]

InBounds(t, i) == 0 <= i /\ i < Len(t)

Slice(t, from, to) == SubSeq(t, from + 1, to)

GapInsert(t, i, ch) == SubSeq(t, 1, i) \o <<ch>> \o SubSeq(t, i + 1, Len(t))

GapRemove(t, i) ==
    IF InBounds(t, i) THEN SubSeq(t, 1, i) \o SubSeq(t, i + 2, Len(t)) ELSE t

\* ------------------------------------------------------------------ Line
Line(data, line_num) == [data |-> data, linenum |-> line_num]

\* ---------------------------------------------------------------- Buffer
\* The outcome of an operation on (text, cursor): the new text and cursor,
\* and whether the operation panicked.
Outcome(t, c, p) == [text |-> t, cursor |-> c, panic |-> p]

set_cursor(location) == location

\* move_cursor that clamps an out-of-range target to the nearest boundary.
move_cursor_clamped(t, c, offset) ==
    LET idx == c + offset
    IN  IF idx < 0 THEN Outcome(t, 0, FALSE)
        ELSE IF idx > Len(t) THEN Outcome(t, Len(t), FALSE)
        ELSE Outcome(t, c, FALSE)

move_cursor(t, c, offset) ==
    LET idx == c + offset
    IN  IF 0 >= idx /\ idx > Len(t)
        THEN Outcome(t, set_cursor(idx), FALSE)
        ELSE Outcome(t, c, FALSE)

RECURSIVE CountNL(_)
CountNL(s) ==
    IF s = <<>> THEN 0
    ELSE (IF Head(s) = NL THEN 1 ELSE 0) + CountNL(Tail(s))

get_line(t, mark) ==
    IF mark < Len(t) THEN Some(CountNL(Slice(t, 0, mark))) ELSE None

RECURSIVE get_line_idx_scan(_, _, _, _)
get_line_idx_scan(t, ln, index, linenum) ==
    IF index >= Len(t) THEN None
    ELSE LET n == IF At(t, index) = NL THEN linenum + 1 ELSE linenum
         IN  IF n = ln THEN Some(index)
             ELSE get_line_idx_scan(t, ln, index + 1, n)

get_line_idx(t, ln) == get_line_idx_scan(t, ln, 0, 0)

\* move_line that resolves the target line without asking get_line whether
\* the cursor and the last character are inside the text.
move_line_unchecked(t, c, offset) ==
    LET cur == CountNL(Slice(t, 0, c))
        idx == get_line_idx(t, cur + offset)
    IN  IF idx = None THEN Outcome(t, c, FALSE)
        ELSE Outcome(t, idx[2] + 1, FALSE)

move_line(t, c, offset) ==
    LET cur == get_line(t, c)
    IN  IF cur = None THEN Outcome(t, c, FALSE)
        ELSE LET len  == Len(t) - 1
                 last == get_line(t, len)
             IN  IF last = None THEN Outcome(t, c, FALSE)
                 ELSE IF cur[2] < last[2]
                      THEN LET idx == get_line_idx(t, cur[2] + offset)
                           IN  IF idx = None THEN Outcome(t, c, TRUE)
                               ELSE Outcome(t, idx[2] + 1, FALSE)
                      ELSE Outcome(t, c, FALSE)

\* shift Left without the test for a newline before the cursor.
shift_left_crossing(t, c) ==
    IF c > 0 THEN Outcome(t, c - 1, FALSE) ELSE Outcome(t, c, FALSE)

shift_left(t, c) ==
    IF c > 0
    THEN IF At(t, c - 1) # NL THEN Outcome(t, c - 1, FALSE)
         ELSE Outcome(t, c, FALSE)
    ELSE Outcome(t, c, FALSE)

shift_right(t, c) ==
    IF c < Len(t)
    THEN IF ~InBounds(t, c + 1) THEN Outcome(t, c, TRUE)
         ELSE IF At(t, c + 1) # NL THEN Outcome(t, c + 1, FALSE)
         ELSE Outcome(t, c, FALSE)
    ELSE Outcome(t, c, FALSE)

shift_cursor(t, c, direction) ==
    CASE direction = "Up"    -> move_line(t, c, 0 - 1)
      [] direction = "Down"  -> move_line(t, c, 1)
      [] direction = "Left"  -> shift_left(t, c)
      [] direction = "Right" -> shift_right(t, c)

\* insert_char that advances the cursor before inserting.
insert_char_after_advance(t, c, ch) ==
    IF c + 1 > Len(t) THEN Outcome(t, c + 1, TRUE)
    ELSE Outcome(GapInsert(t, c + 1, ch), c + 1, FALSE)

\* insert_char that leaves the cursor where it was.
insert_char_no_advance(t, c, ch) ==
    IF c > Len(t) THEN Outcome(t, c, TRUE)
    ELSE Outcome(GapInsert(t, c, ch), c, FALSE)

insert_char(t, c, ch) ==
    IF c > Len(t) THEN Outcome(t, c, TRUE)
    ELSE Outcome(GapInsert(t, c, ch), c + 1, FALSE)

\* Left-deletion without the early return at the start of the buffer.
delete_left_unguarded(t, c) == Outcome(GapRemove(t, c - 1), c - 1, FALSE)

\* Left-deletion that removes before it moves the cursor.
delete_left_remove_first(t, c) ==
    IF c = 0 THEN Outcome(t, c, FALSE)
    ELSE Outcome(GapRemove(t, c), c - 1, FALSE)

delete_left(t, c) ==
    IF c = 0 THEN Outcome(t, c, FALSE)
    ELSE Outcome(GapRemove(t, c - 1), c - 1, FALSE)

\* Right-deletion that removes the character after the one at the cursor.
delete_right_next(t, c) == Outcome(GapRemove(t, c + 1), c, FALSE)

delete_right(t, c) == Outcome(GapRemove(t, c), c, FALSE)

delete_char(t, c, dir) ==
    IF dir = "Left" THEN delete_left(t, c) ELSE delete_right(t, c)

\* What a query returns: its value, and whether it panicked instead.
Unit == "unit"

Returned(v) == [val |-> v, panic |-> FALSE]

Panicked == [val |-> Unit, panic |-> TRUE]

\* format!("{} {}", path.display(), self.cursor) / format!("untitled {}", ..)
\* as the sequence of the formatted pieces.
get_status_text(path, c) ==
    IF path # None THEN Returned(<<path[2], " ", c>>)
    ELSE Returned(<<"untitled", " ", c>>)

\* The reverse scan over text[0..cursor] panics at the first newline it
\* meets and otherwise runs to the end.
get_cursor_screen_offset(t, c) ==
    IF c = 0 THEN Returned(0)
    ELSE IF \E index \in 0..(c - 1) : At(Slice(t, 0, c), index) = NL
         THEN Panicked
         ELSE Returned(0)

\* lines.len() - 1 on an empty Vec is 0 - 1 in uint: an overflow panic in a
\* checked build, uint::MAX in a wrapping build, where no line_num exceeds
\* it and the index into the empty Vec panics.
get_line_at(ls, line_num) ==
    IF Len(ls) = 0 THEN Panicked
    ELSE LET num_lines == Len(ls) - 1
         IN  IF line_num > num_lines THEN Returned(None)
             ELSE Returned(Some(ls[line_num + 1]))

\* ------------------------------------------------- line-level editing
\* insert_line, split_line and join_line_with_previous are called by the
\* tests of buffer.rs but their bodies are not part of the source; they are
\* modelled from section 4.3 of the specification, with the argument order
\* (offset, line_num) that the calls and expectations of the tests fix.
LineResult(ls, v) == [lines |-> ls, val |-> v]

\* Renumber the lines from index `from` onward by their position.
fix_linenums(ls, from) ==
    [i \in 1..Len(ls) |->
        IF i - 1 >= from THEN Line(ls[i].data, i - 1) ELSE ls[i]]

split_line(ls, offset, line_num) ==
    LET data == ls[line_num + 1].data
    IN  <<SubSeq(data, 1, offset), SubSeq(data, offset + 1, Len(data))>>

\* insert_line that numbers the new line but leaves the following lines
\* with their old numbers.
insert_line_no_renumber(ls, offset, line_num) ==
    LET parts == split_line(ls, offset, line_num)
        new   == line_num + 1
        kept  == [ls EXCEPT ![line_num + 1].data = parts[1]]
    IN  LineResult(SubSeq(kept, 1, new) \o <<Line(parts[2], new)>>
                       \o SubSeq(kept, new + 1, Len(kept)),
                   Unit)

insert_line(ls, offset, line_num) ==
    LET parts == split_line(ls, offset, line_num)
        new   == line_num + 1
        kept  == [ls EXCEPT ![line_num + 1].data = parts[1]]
    IN  LineResult(fix_linenums(SubSeq(kept, 1, new) \o <<Line(parts[2], new)>>
                                    \o SubSeq(kept, new + 1, Len(kept)),
                                new),
                   Unit)

\* The part of data from offset on; nothing when offset is past its end.
From(data, offset) ==
    IF offset >= Len(data) THEN <<>> ELSE SubSeq(data, offset + 1, Len(data))

\* join_line_with_previous without the test for line 0: the first line is
\* removed although there is no previous line to receive its content.
join_line_with_previous_unguarded(ls, offset, line_num) ==
    IF line_num >= Len(ls) THEN LineResult(ls, offset)
    ELSE IF line_num = 0 THEN LineResult(fix_linenums(Tail(ls), 0), 0)
    ELSE LET prev   == ls[line_num]
             joined == [ls EXCEPT ![line_num].data =
                            prev.data \o From(ls[line_num + 1].data, offset)]
         IN  LineResult(fix_linenums(SubSeq(joined, 1, line_num)
                                         \o SubSeq(joined, line_num + 2, Len(joined)),
                                     line_num),
                        Len(prev.data))

\* Returns the length the previous line had (tests, buffer.rs:248-252); a
\* call that joins nothing returns the offset it was given.
join_line_with_previous(ls, offset, line_num) ==
    IF line_num = 0 \/ line_num >= Len(ls) THEN LineResult(ls, offset)
    ELSE LET prev   == ls[line_num]
             joined == [ls EXCEPT ![line_num].data =
                            prev.data \o From(ls[line_num + 1].data, offset)]
         IN  LineResult(fix_linenums(SubSeq(joined, 1, line_num)
                                         \o SubSeq(joined, line_num + 2, Len(joined)),
                                     line_num),
                        Len(prev.data))

\* ----------------------------------------------------------- state machine
\* The call record also remembers the insert_char this call follows
\* directly, if it follows one: its character and the buffer it was given.
NoPrior == [op |-> "none"]

Prior ==
    IF call.op = "insert_char"
    THEN [op |-> call.op, arg |-> call.arg,
          text |-> call.text, cursor |-> call.cursor]
    ELSE NoPrior

Call(op, arg) ==
    [op |-> op, arg |-> arg, text |-> text, cursor |-> cursor, lines |-> lines,
     prior |-> Prior]

\* Apply the outcome of a completed or panicked operation.
Apply(o, op, arg) ==
    /\ status = "ok"
    /\ text' = o.text
    /\ cursor' = o.cursor
    /\ status' = IF o.panic THEN "panic" ELSE "ok"
    /\ call' = Call(op, arg)
    /\ ret' = Unit
    /\ UNCHANGED <<lines, file_path>>

\* A &self operation: the buffer is unchanged, r is returned.
Query(r, op, arg) ==
    /\ status = "ok"
    /\ status' = IF r.panic THEN "panic" ELSE "ok"
    /\ call' = Call(op, arg)
    /\ ret' = r.val
    /\ UNCHANGED <<text, cursor, lines, file_path>>

\* Buffer::new, new_from_reader, new_from_file
New(t, path, op) ==
    /\ text = t
    /\ cursor = 0
    /\ lines = <<>>
    /\ file_path = path
    /\ status = "ok"
    /\ ret = Unit
    /\ call = [op |-> op, arg |-> t, text |-> <<>>, cursor |-> 0, lines |-> <<>>,
               prior |-> NoPrior]

Init ==
    \/ New(<<>>, None, "new")
    \/ \E t \in Texts : New(t, None, "new_from_reader")
    \/ \E t \in Texts : New(t, Some("path"), "new_from_file")
    \/ New(<<>>, None, "new_from_file")

MoveCursor ==
    \E d \in Deltas : Apply(move_cursor(text, cursor, d), "move_cursor", d)

ShiftCursor ==
    \E d \in Directions : Apply(shift_cursor(text, cursor, d), "shift_cursor", d)

InsertChar ==
    /\ Len(text) < MaxLen
    /\ \E ch \in Chars : Apply(insert_char(text, cursor, ch), "insert_char", ch)

DeleteChar ==
    \E d \in {"Left", "Right"} :
        Apply(delete_char(text, cursor, d), "delete_char", d)

GetStatusText ==
    Query(get_status_text(file_path, cursor), "get_status_text", Unit)

GetCursorScreenOffset ==
    Query(get_cursor_screen_offset(text, cursor), "get_cursor_screen_offset", Unit)

GetLineIdx ==
    \E ln \in (0 - 1)..MaxLineNum :
        Query(Returned(get_line_idx(text, ln)), "get_line_idx", ln)

GetLineAt ==
    \E line_num \in 0..MaxLineNum :
        Query(get_line_at(lines, line_num), "get_line_at", line_num)

\* A line-level operation: only the lines cache changes.
LineOp(r, op, arg) ==
    /\ status = "ok"
    /\ lines' = r.lines
    /\ call' = Call(op, arg)
    /\ ret' = r.val
    /\ UNCHANGED <<text, cursor, file_path, status>>

InsertLine ==
    /\ Len(lines) <= MaxLines
    /\ \E line_num \in 0..(Len(lines) - 1) :
          \E offset \in 0..Len(lines[line_num + 1].data) :
              LineOp(insert_line(lines, offset, line_num),
                     "insert_line", <<offset, line_num>>)

SplitLine ==
    \E line_num \in 0..(Len(lines) - 1) :
        \E offset \in 0..Len(lines[line_num + 1].data) :
            Query(Returned(split_line(lines, offset, line_num)),
                  "split_line", <<offset, line_num>>)

JoinLineWithPrevious ==
    \E line_num \in 0..MaxLineNum :
        \E offset \in 0..MaxData :
            LineOp(join_line_with_previous(lines, offset, line_num),
                   "join_line_with_previous", <<offset, line_num>>)

Next ==
    \/ MoveCursor
    \/ ShiftCursor
    \/ InsertChar
    \/ DeleteChar
    \/ GetStatusText
    \/ GetCursorScreenOffset
    \/ GetLineIdx
    \/ GetLineAt

Spec == Init /\ [][Next]_vars

\* tests::setup_buffer: a new buffer with a path and sequentially numbered
\* lines assigned to the public field.
\* Line contents: "", "a", "ab", "aba", ... up to MaxData characters.
LineDatas ==
    {[i \in 1..k |-> IF i % 2 = 1 THEN "a" ELSE "b"] : k \in 0..MaxData}

SetupLines ==
    UNION {{[i \in 1..n |-> Line(d[i], i - 1)] : d \in [1..n -> LineDatas]}
              : n \in 1..MaxLines}

SetupInit ==
    /\ text = <<>>
    /\ cursor = 0
    /\ lines \in SetupLines
    /\ file_path = Some("path")
    /\ status = "ok"
    /\ ret = Unit
    /\ call = [op |-> "setup_buffer", arg |-> lines, text |-> <<>>,
               cursor |-> 0, lines |-> <<>>, prior |-> NoPrior]

LineNext ==
    \/ InsertLine
    \/ SplitLine
    \/ JoinLineWithPrevious
    \/ GetLineAt
    \/ GetStatusText

LineSpec == SetupInit /\ [][LineNext]_vars

TypeOK ==
    /\ text \in Texts
    /\ cursor \in Int
    /\ status \in {"ok", "panic"}

\* ------------------------------------------------------------- properties
\* What the last call was invoked on.
Called(op, arg) == call.op = op /\ call.arg = arg

PreLen == Len(call.text)

Unchanged == text = call.text /\ cursor = call.cursor /\ lines = call.lines

\* The text is the pre-call text without its element at offset i.
RemovedAt(i) ==
    /\ Len(text) = PreLen - 1
    /\ \A j \in 0..(Len(text) - 1) :
          At(text, j) = At(call.text, IF j < i THEN j ELSE j + 1)

\* The text is the pre-call text with ch put in at offset i.
InsertedAt(i, ch) ==
    /\ Len(text) = PreLen + 1
    /\ At(text, i) = ch
    /\ \A j \in 0..(PreLen - 1) :
          At(call.text, j) = At(text, IF j < i THEN j ELSE j + 1)

\* lines joined by one newline between consecutive lines.
RECURSIVE JoinLines(_)
JoinLines(ls) ==
    IF ls = <<>> THEN <<>>
    ELSE IF Len(ls) = 1 THEN ls[1].data
    ELSE ls[1].data \o <<NL>> \o JoinLines(Tail(ls))

\* t split on newline, numbered from n.
RECURSIVE SplitFrom(_, _, _)
SplitFrom(t, acc, n) ==
    IF t = <<>> THEN <<Line(acc, n)>>
    ELSE IF Head(t) = NL THEN <<Line(acc, n)>> \o SplitFrom(Tail(t), <<>>, n + 1)
    ELSE SplitFrom(Tail(t), Append(acc, Head(t)), n)

SplitLines(t) == SplitFrom(t, <<>>, 0)

\* C1: in every reachable state 0 <= cursor <= text.length.
C1_CursorInBounds == 0 <= cursor /\ cursor <= Len(text)

\* C1 witness: a shift_cursor(Down) that moved the cursor to the next line.
C1_Witness ==
    /\ Called("shift_cursor", "Down")
    /\ cursor > call.cursor
    /\ At(text, cursor - 1) = NL
    /\ status = "ok"

\* C2: in every reachable state the lines, joined by single newlines,
\* reconstruct text exactly.
C2_LinesJoinToText == JoinLines(lines) = text

\* C3: a new empty buffer has exactly one empty Line numbered 0, a buffer
\* read from a reader has its text split on newline as lines, and lines is
\* never empty.
C3_InitialLines ==
    /\ Len(lines) >= 1
    /\ call.op = "new" => lines = <<Line(<<>>, 0)>>
    /\ call.op = "new_from_reader" => lines = SplitLines(text)

\* C4: move_cursor(delta) with 0 <= cursor + delta <= text.length sets
\* cursor to cursor + delta.
C4_MoveCursorInRange ==
    (/\ call.op = "move_cursor"
     /\ 0 <= call.cursor + call.arg
     /\ call.cursor + call.arg <= PreLen)
    => cursor = call.cursor + call.arg

\* C5: move_cursor(delta) with cursor + delta < 0 or > text.length leaves
\* cursor, text and lines unchanged and does not fail.
C5_MoveCursorOutOfRange ==
    (/\ call.op = "move_cursor"
     /\ \/ call.cursor + call.arg < 0
        \/ call.cursor + call.arg > PreLen)
    => Unchanged /\ status = "ok"

\* C5 witness: a move_cursor past the end of a non-empty buffer.
C5_Witness ==
    /\ call.op = "move_cursor"
    /\ PreLen > 0
    /\ call.cursor + call.arg > PreLen
    /\ cursor = call.cursor

\* C6: insert_char(ch) puts ch into text at the pre-call cursor, keeps the
\* other characters in order and advances cursor by 1; 'a' then 'b' on an
\* empty buffer give text "ab" and cursor 2.
C6_InsertChar ==
    /\ call.op = "insert_char" =>
          /\ status = "ok"
          /\ InsertedAt(call.cursor, call.arg)
          /\ cursor = call.cursor + 1
    /\ (Called("insert_char", "a") /\ call.text = <<>>) =>
          text = <<"a">> /\ cursor = 1
    /\ (Called("insert_char", "b") /\ call.text = <<"a">> /\ call.cursor = 1) =>
          text = <<"a", "b">> /\ cursor = 2

\* C6 witness: the second insert of scenario A.
C6_Witness ==
    /\ Called("insert_char", "b")
    /\ call.text = <<"a">>
    /\ call.cursor = 1
    /\ text = <<"a", "b">>
    /\ cursor = 2

\* C7: delete_char(Left) at cursor 0 changes nothing; at cursor > 0 it
\* decrements cursor and removes exactly the character before the pre-call
\* cursor.
C7_DeleteLeft ==
    Called("delete_char", "Left") =>
        /\ status = "ok"
        /\ lines = call.lines
        /\ IF call.cursor = 0 THEN Unchanged
           ELSE cursor = call.cursor - 1 /\ RemovedAt(call.cursor - 1)

\* C7 witness: a Left-deletion between two different characters.
C7_Witness ==
    /\ Called("delete_char", "Left")
    /\ call.cursor > 0
    /\ call.cursor < PreLen
    /\ At(call.text, call.cursor - 1) # At(call.text, call.cursor)
    /\ Len(text) = PreLen - 1

C8_WitnessAtEnd ==
    /\ Called("delete_char", "Right")
    /\ call.cursor = PreLen
    /\ PreLen > 0
    /\ text = call.text

\* C9: shift_cursor(Left) decrements cursor exactly when cursor > 0 and the
\* character before it is not a newline; otherwise cursor is unchanged.
C9_ShiftLeft ==
    Called("shift_cursor", "Left") =>
        /\ status = "ok"
        /\ text = call.text
        /\ cursor = IF call.cursor > 0 /\ At(call.text, call.cursor - 1) # NL
                    THEN call.cursor - 1
                    ELSE call.cursor

\* C9 witness: Left at the start of a line after a newline.
C9_Witness ==
    /\ Called("shift_cursor", "Left")
    /\ call.cursor > 0
    /\ At(call.text, call.cursor - 1) = NL
    /\ cursor = call.cursor

\* C9 witness of the move: Left after a character that is no newline.
C9_WitnessMoved ==
    /\ Called("shift_cursor", "Left")
    /\ call.cursor > 0
    /\ cursor = call.cursor - 1

\* C10: shift_cursor(Right) increments cursor exactly when cursor <
\* text.length and text[cursor] is not a newline; otherwise it leaves
\* cursor unchanged.
C10_ShiftRight ==
    Called("shift_cursor", "Right") =>
        /\ status = "ok"
        /\ text = call.text
        /\ cursor = IF call.cursor < PreLen /\ At(call.text, call.cursor) # NL
                    THEN call.cursor + 1
                    ELSE call.cursor

\* Number of newlines in t[0, c).
NewlinesBefore(t, c) == Cardinality({i \in 0..(c - 1) : At(t, i) = NL})

NumNewlines(t) == NewlinesBefore(t, Len(t))

\* Offset of the first character of line n of t: 0 for line 0, one past
\* the n-th newline otherwise.
LineStart(t, n) ==
    IF n = 0 THEN 0
    ELSE 1 + (CHOOSE i \in 0..(Len(t) - 1) :
                 At(t, i) = NL /\ NewlinesBefore(t, i) = n - 1)

Vertical == call.op = "shift_cursor" /\ call.arg \in {"Up", "Down"}

\* The line the cursor was on, and the line Up or Down asks for.
PreLine == NewlinesBefore(call.text, call.cursor)

TargetLine == IF call.arg = "Up" THEN PreLine - 1 ELSE PreLine + 1

TargetExists == 0 <= TargetLine /\ TargetLine <= NumNewlines(call.text)

\* C11: shift_cursor(Up|Down) sets cursor to the start offset of the
\* adjacent line plus 1 whenever that line exists, from every line.
C11_VerticalMove ==
    (Vertical /\ TargetExists) =>
        /\ status = "ok"
        /\ cursor = LineStart(call.text, TargetLine) + 1

\* C12: shift_cursor(Up) on line 0 and shift_cursor(Down) on the last line
\* change nothing and do not fail.
C12_VerticalNoOp ==
    (Vertical /\ ~TargetExists) => Unchanged /\ status = "ok"

\* C13: get_cursor_screen_offset() returns cursor minus the start offset of
\* the cursor's line.
C13_ScreenOffset ==
    call.op = "get_cursor_screen_offset" =>
        /\ status = "ok"
        /\ ret = cursor - LineStart(text, NewlinesBefore(text, cursor))

\* C14: get_status_text() returns "<path>, lines: <N>" or
\* "untitled, lines: <N>" with N the number of lines, whatever the cursor.
C14_StatusText ==
    call.op = "get_status_text" =>
        ret = <<IF file_path # None THEN file_path[2] ELSE "untitled",
                ", lines: ", Len(lines)>>

\* C15: no Buffer operation aborts or panics in any reachable state.
C15_NoPanic == status = "ok"

\* C18: get_line_idx(n) returns the start offset of line n for n from 0 to
\* the number of newlines, and not-found for any other n.
C18_GetLineIdx ==
    call.op = "get_line_idx" =>
        ret = IF 0 <= call.arg /\ call.arg <= NumNewlines(text)
              THEN Some(LineStart(text, call.arg))
              ELSE None

\* C19: with cursor = text.length, shift_cursor(Up) and shift_cursor(Down)
\* leave cursor and text unchanged.
C19_VerticalAtEnd ==
    (Vertical /\ call.cursor = PreLen) =>
        /\ status = "ok"
        /\ text = call.text
        /\ cursor = call.cursor

\* C19 witness: Up at the end of a text with a line before the cursor's.
C19_Witness ==
    /\ Called("shift_cursor", "Up")
    /\ call.cursor = PreLen
    /\ PreLine >= 1
    /\ At(call.text, 0) # NL
    /\ cursor = call.cursor
    /\ status = "ok"

\* lines[i].line_num = i for every index i.
Sequential(ls) == \A i \in 1..Len(ls) : ls[i].linenum = i - 1

\* C16: after insert_line or join_line_with_previous on sequentially
\* numbered lines, lines[i].line_num = i for every i, and insert_line adds
\* exactly one line.
C16_Renumbered ==
    (call.op \in {"insert_line", "join_line_with_previous"}
        /\ Sequential(call.lines)) =>
        /\ Sequential(lines)
        /\ call.op = "insert_line" => Len(lines) = Len(call.lines) + 1

\* C16 witness: an insert_line into a line that has a line after it.
C16_Witness ==
    /\ call.op = "insert_line"
    /\ call.arg[2] + 1 < Len(call.lines)
    /\ Len(lines) = Len(call.lines) + 1
    /\ lines[Len(lines)].linenum = Len(lines) - 1

C20_InsertThenDeleteLeft ==
    (Called("delete_char", "Left") /\ call.prior.op = "insert_char") =>
        /\ status = "ok"
        /\ text = call.prior.text
        /\ cursor = call.prior.cursor

\* C20 witness: a newline inserted inside a non-empty text and deleted
\* again.
C20_Witness ==
    /\ Called("delete_char", "Left")
    /\ call.prior.op = "insert_char"
    /\ call.prior.arg = NL
    /\ call.prior.cursor > 0
    /\ call.prior.cursor < Len(call.prior.text)
    /\ text = call.prior.text
====
